---- MODULE Spec2Model ----
(***************************************************************************)
(* Statistics presenter of uhabit (src/lib/presenters/statisticsPresenter) *)
(* as a state machine: the presenter's closure variables, the published    *)
(* svelte store, the Local Store (statsCache) and the asynchronous sync()  *)
(* invocations, one step per awaited call.                                 *)
(***************************************************************************)
EXTENDS Integers, FiniteSets, Sequences, TLC

(* ------------------------------ bounds -------------------------------- *)
\* number of sync()/intent invocations that may be in flight together
MaxSyncs == 2
\* calendar days are 0..MaxDay; the wall clock's "today" is MaxDay
MaxDay == 3
\* the wall clock (new Date()) shows 0..MaxNow: it advances with every intent,
\* and no intent is issued once it shows MaxNow
MaxNow == 2

Syncs == 1..MaxSyncs
Days == 0..MaxDay
Today == MaxDay

(* ------------------------------ values -------------------------------- *)
Null == "null"
\* null where the value is otherwise a record
NullRecord == [null |-> TRUE]
Users == {"A", "B", "Z"}
Scopes == {"daily", "weekly", "monthly"}
\* typed failures of the Remote Data Gateway, and the Local Store failure
FetchFailures == {"Unauthenticated", "Unreachable", "ServerError"}
StorageUnavailable == "StorageUnavailable"
ErrorMessage == "Failed to load statistics. Please try again."

\* the dates the user selects on the statistics page
SelectableDates == {Today - 1, Today}

(* ----------------------- Remote Data Gateway -------------------------- *)
\* the habits the server holds for a user: A and B own one habit each,
\* Z is an account without habits
ServerHabits(u) ==
  IF u = "Z" THEN {} ELSE {[id |-> u, userId |-> u]}

\* the completions the server holds for a user: A completed every day,
\* B every second day
ServerCompletions(u) ==
  {[habitId |-> h.id, userId |-> u, date |-> d] :
      h \in ServerHabits(u),
      d \in {x \in Days : u = "A" \/ x % 2 = 1}}

\* api.fetchHabits(): the habit list of the session's user
fetchHabits(u) == ServerHabits(u)

\* api.fetchCompletions(since): the user's completions with date >= since
fetchCompletions(u, since) ==
  {c \in ServerCompletions(u) : c.date >= since}

(* --------------------------- Local Store ------------------------------ *)
NoMetadata == [lastHabitsSync |-> 0, lastCompletionsSync |-> 0,
               version |-> 0, userId |-> Null]
EmptyStore == [habits |-> {}, completions |-> {}, metadata |-> NoMetadata]

\* cache.clearAll(): wipes habits, completions and metadata
clearAll(st) == EmptyStore

\* cache.setHabits(list): replaces the habit table
setHabits(st, list) == [st EXCEPT !.habits = list]

\* cache.addCompletions(list): upsert keyed by (habit, date)
addCompletions(st, list) ==
  [st EXCEPT !.completions =
     {c \in @ : ~ \E n \in list : n.habitId = c.habitId /\ n.date = c.date}
       \cup list]

\* cache.setMetadata(meta)
setMetadata(st, meta) == [st EXCEPT !.metadata = meta]

(* ----------------------- Aggregation Functions ------------------------ *)
\* length of a scope's period on the model's scaled calendar
PeriodDays(scope) ==
  CASE scope = "daily" -> 1
    [] scope = "weekly" -> 2
    [] scope = "monthly" -> 4

\* getPeriodRanges(scope, date): the calendar period holding date, and the
\* period before it
getPeriodRanges(scope, date) ==
  LET n == PeriodDays(scope)
      from == date - (date % n)
  IN [current |-> [from |-> from, to |-> from + n - 1],
      previous |-> [from |-> from - n, to |-> from - 1]]

\* getHeatmapRange(scope, date): lookback window anchored at date, longer
\* for coarser scopes
getHeatmapRange(scope, date) ==
  [from |-> date - PeriodDays(scope), to |-> date]

InRange(d, range) == range.from <= d /\ d <= range.to

\* a rate is a fraction <<numerator, denominator>> with denominator > 0
Zero == <<0, 1>>
Minus(a, b) == <<a[1] * b[2] - b[1] * a[2], a[2] * b[2]>>

\* computeCompletionRate(habits, completions, range): every habit is due on
\* every day of the range; completed counts the due days with a completion,
\* rate is completed / total, and 0 when no day is due
computeCompletionRate(hs, cs, range) ==
  LET due == {<<h.id, d>> : h \in hs, d \in {x \in Days : InRange(x, range)}}
      done == {p \in due : \E c \in cs : c.habitId = p[1] /\ c.date = p[2]}
      completed == Cardinality(done)
      total == Cardinality(due)
  IN [completed |-> completed, total |-> total,
      rate |-> IF total = 0 THEN Zero ELSE <<completed, total>>]

\* formatRangeLabel(scope, date)
formatRangeLabel(scope, date) ==
  <<scope, getPeriodRanges(scope, date).current.from>>

\* computeHeatmap(habits, completions, range, scope): one cell per day
computeHeatmap(hs, cs, range) ==
  {[date |-> d,
    value |-> computeCompletionRate(hs, cs, [from |-> d, to |-> d])] :
      d \in {x \in Days : InRange(x, range)}}

\* computeTrends(habits, completions, scope, date): per habit, the rate of
\* the current period and of the previous one
computeTrends(hs, cs, scope, date) ==
  LET r == getPeriodRanges(scope, date)
  IN {[habitId |-> h.id,
       current |-> computeCompletionRate({h}, cs, r.current),
       previous |-> computeCompletionRate({h}, cs, r.previous)] : h \in hs}

\* computeInsights(habits, completions, range, date): thresholding of the
\* trend deltas (improved / at risk)
computeInsights(hs, cs, scope, date) ==
  LET ts == computeTrends(hs, cs, scope, date)
  IN [improved |-> {t.habitId : t \in {x \in ts :
                       x.current.completed > x.previous.completed}},
      atRisk |-> {t.habitId : t \in {x \in ts :
                       x.current.completed < x.previous.completed}}]

\* buildActivity(trends)
buildActivity(ts) == {[habitId |-> t.habitId, rate |-> t.current] : t \in ts}

\* the aggregates of an account without habits (lines 100-110)
EmptyStatistics ==
  [periodStats |-> NullRecord, trends |-> {}, heatmap |-> {},
   snapshot |-> NullRecord, insights |-> NullRecord, activity |-> {}]

\* a delta that adds the two rates
weeklyDelta_Sum(currentRate, previousRate) ==
  Minus(currentRate.rate, <<0 - previousRate.rate[1], previousRate.rate[2]>>)

\* line 134: weeklyDelta: currentRate.rate - previousRate.rate
weeklyDelta(currentRate, previousRate) ==
  Minus(currentRate.rate, previousRate.rate)

\* the ComputedStatistics that computeStatistics(scope, date) derives from
\* the in-memory habits hs and completions cs
ComputedStatistics(hs, cs, scope, date) ==
  IF hs = {} THEN EmptyStatistics
  ELSE
    LET r == getPeriodRanges(scope, date)
        heatmapRange == getHeatmapRange(scope, date)
        currentRate == computeCompletionRate(hs, cs, r.current)
        previousRate == computeCompletionRate(hs, cs, r.previous)
        trends == computeTrends(hs, cs, scope, date)
    IN [periodStats |-> [rangeLabel |-> formatRangeLabel(scope, date),
                         completionRate |-> currentRate.rate,
                         completions |-> currentRate.completed],
        trends |-> trends,
        heatmap |-> computeHeatmap(hs, cs, heatmapRange),
        snapshot |-> [overallCompletion |-> currentRate.rate,
                      weeklyDelta |-> weeklyDelta(currentRate, previousRate)],
        insights |-> computeInsights(hs, cs, scope, date),
        activity |-> buildActivity(trends)]

\* an update that replaces five of the aggregates and keeps the old heatmap
applyStats_KeepsHeatmap(s, computed) ==
  [s EXCEPT !.isLoading = FALSE,
            !.periodStats = computed.periodStats,
            !.trends = computed.trends,
            !.snapshot = computed.snapshot,
            !.insights = computed.insights,
            !.activity = computed.activity]

\* update((s) => ({ ...s, isLoading: false, ...computed }))
applyStats(s, computed) ==
  [s EXCEPT !.isLoading = FALSE,
            !.periodStats = computed.periodStats,
            !.trends = computed.trends,
            !.heatmap = computed.heatmap,
            !.snapshot = computed.snapshot,
            !.insights = computed.insights,
            !.activity = computed.activity]

\* the six aggregate fields of a published state
StatsOf(s) ==
  [periodStats |-> s.periodStats, trends |-> s.trends, heatmap |-> s.heatmap,
   snapshot |-> s.snapshot, insights |-> s.insights, activity |-> s.activity]

\* HISTORY_DAYS of STATS_CACHE on the scaled calendar
HistoryDays == 2

\* getFetchFromDate(heatmapRange): the earlier of the heatmap start and the
\* start of the history window
getFetchFromDate(heatmapRange) ==
  LET historyStart == Today - HistoryDays
  IN IF heatmapRange.from < historyStart THEN heatmapRange.from
     ELSE historyStart

(* ------------------------------- state -------------------------------- *)
VARIABLES
  user,         \* the account the session (cookie) belongs to
  now,          \* the wall clock read by new Date()
  store,        \* the Local Store (IndexedDB): survives page loads
  cache,        \* TRUE when the presenter's `cache` is not null
  listening,    \* TRUE when the online/offline listeners are registered
  habits,       \* the presenter's in-memory habits
  completions,  \* the presenter's in-memory completions
  state,        \* the published StatisticsState
  sync,         \* the invocations of initialize/clearCache/sync in flight
  returned      \* how the invocation that returned last has settled

\* the variables of the statistics presenter
statisticsVars == <<user, now, store, cache, listening, habits, completions,
                    state, sync, returned>>

\* an invocation slot that is not in use
IdleSync ==
  [pc |-> "idle", caller |-> Null, scope |-> Null, date |-> 0,
   metadata |-> NoMetadata, freshHabits |-> {}, arg |-> {}, caught |-> Null,
   at |-> Null, before |-> <<{}, {}>>]

\* no invocation has returned yet
NothingReturned ==
  [op |-> Null, path |-> Null, thrown |-> Null, outcome |-> Null,
   mirrored |-> "none"]

\* initialState of createStatisticsPresenter
initialState ==
  [scope |-> "daily", selectedDate |-> Today, isLoading |-> TRUE,
   isSyncing |-> FALSE, isOffline |-> FALSE, error |-> Null, lastSync |-> 0,
   periodStats |-> NullRecord, trends |-> {}, heatmap |-> {},
   snapshot |-> NullRecord, insights |-> NullRecord, activity |-> {}]

\* line 181
CurrentUserId(fresh) ==
  IF fresh # {} THEN (CHOOSE h \in fresh : TRUE).userId ELSE Null

\* what a completed sync of user u in an earlier page session has left in
\* the Local Store (lines 210-217); the store outlives the presenter. A user
\* without habits leaves metadata without an owner tag (line 181)
PersistedStore(u) ==
  [habits |-> fetchHabits(u),
   completions |->
     fetchCompletions(u, getFetchFromDate(getHeatmapRange("daily", Today))),
   metadata |-> [lastHabitsSync |-> -1, lastCompletionsSync |-> -1,
                 version |-> 1, userId |-> CurrentUserId(fetchHabits(u))]]

(* ------------- settings and notifications presenters: state ------------ *)
\* number of settings calls (loadSettings, saveAll, uploadAvatar) that may
\* be in flight together
MaxCalls == 2
\* number of avatar uploads the server accepts
MaxUploads == 1
\* number of intents issued on the settings page in one behaviour
MaxIssued == 5

Calls == 1..MaxCalls

\* the tracked settings fields of the model: name is sent as
\* `name || undefined` (line 564), reduceMotion lives in the local
\* motionStore and is not sent (lines 508-512)
SettingsFields == {"name", "reduceMotion"}
Names == {"", "a", "b"}
FieldValues(field) == IF field = "name" THEN Names ELSE BOOLEAN

\* an avatar URL is the number of the upload that produced it; 0 is the
\* avatar the account starts with, NoAvatar is avatarUrl: null
NoAvatar == -1
LoadFailure == "Failed to load settings"
SaveFailure == "Failed to save settings"
UploadFailure == "Could not upload avatar"

\* initialState of createSettingsPresenter (lines 388-410)
initialSettings ==
  [name |-> "", reduceMotion |-> FALSE, avatarUrl |-> NoAvatar,
   isLoading |-> TRUE, isSaving |-> FALSE, isUploadingAvatar |-> FALSE,
   error |-> Null]

\* a field without an entry in the `changes` map
NoChange == NullRecord
NoChanges == [f \in SettingsFields |-> NoChange]

\* a call slot that is not in use
IdleCall ==
  [op |-> "idle", pc |-> "idle", body |-> NullRecord,
   response |-> NullRecord, edited |-> {}]

\* no settings call has returned yet
NothingSettled == [op |-> Null, success |-> FALSE, rejected |-> FALSE]

VARIABLES
  settings,     \* the published SettingsState
  changes,      \* the `changes` map: field -> {original, current}
  storage,      \* the settings cache entry of sessionStorage
  motionStore,  \* the reduceMotion store
  account,      \* the user's settings as the server holds them
  calls,        \* the settings calls in flight
  saved,        \* each field's value after the last load, save or discard
  uploaded,     \* the avatar URL of the last successful uploadAvatar
  issued,       \* the number of settings intents issued
  settled       \* how the settings call that returned last has ended

settingsVars ==
  <<settings, changes, storage, motionStore, account, calls, saved,
    uploaded, issued, settled>>

\* the settings presenter as constructed (lines 412-427), over an empty
\* sessionStorage
SettingsInit ==
  /\ settings = initialSettings
  /\ changes = NoChanges
  /\ storage = NullRecord
  /\ motionStore = FALSE
  /\ account = [name |-> "a", imageUrl |-> 0]
  /\ calls = [c \in Calls |-> IdleCall]
  /\ saved = [f \in SettingsFields |-> initialSettings[f]]
  /\ uploaded = 0
  /\ issued = 0
  /\ settled = NothingSettled

\* number of notification requests that may be in flight together
MaxRequests == 2
\* number of pages of notifications the server holds, one notification each
NumPages == 3
\* number of notification intents issued in one behaviour
MaxAsked == 5

Requests == 1..MaxRequests
NotificationIds == 1..NumPages

\* the initial state of createNotificationsPresenter (lines 50-58)
initialNotifications ==
  [notifications |-> <<>>, unreadCount |-> 0, loading |-> FALSE,
   hasMore |-> FALSE, page |-> 1, initialized |-> FALSE, error |-> Null]

\* a request slot that is not in use
IdleRequest ==
  [op |-> "idle", pc |-> "idle", caller |-> Null, id |-> 0, page |-> 0,
   reset |-> FALSE, data |-> <<>>, hasMore |-> FALSE, count |-> 0]

\* no notification request has returned yet
NothingAnswered == [op |-> Null, failed |-> FALSE, rejected |-> FALSE]

VARIABLES
  notifs,       \* the published NotificationsState
  inbox,        \* the user's notifications as the server holds them
  requests,     \* the notification requests in flight
  asked,        \* the number of notification intents issued
  loaded,       \* the pages appended to the list since the last reset
  decremented,  \* the notifications for which unreadCount was decremented
  answered      \* how the notification request that returned last has ended

notificationsVars ==
  <<notifs, inbox, requests, asked, loaded, decremented, answered>>

\* the notifications presenter as constructed (lines 47-60); every
\* notification on the server is unread
NotificationsInit ==
  /\ notifs = initialNotifications
  /\ inbox = [n \in NotificationIds |-> "unread"]
  /\ requests = [r \in Requests |-> IdleRequest]
  /\ asked = 0
  /\ loaded = <<>>
  /\ decremented = {}
  /\ answered = NothingAnswered

vars == <<statisticsVars, settingsVars, notificationsVars>>

\* the presenter as constructed (lines 61-90) for the signed-in user, over
\* a Local Store that is empty or was filled by an earlier session of any
\* account on this device
Init ==
  /\ user \in Users
  /\ now = 0
  /\ store \in {EmptyStore} \cup {PersistedStore(u) : u \in Users}
  /\ cache = FALSE
  /\ listening = FALSE
  /\ habits = {}
  /\ completions = {}
  /\ state = initialState
  /\ sync = [i \in Syncs |-> IdleSync]
  /\ returned = NothingReturned
  /\ SettingsInit
  /\ NotificationsInit

InFlight(i) == sync[i].pc # "idle"
\* a new invocation takes the first slot that is not in use
Free(i) == ~InFlight(i) /\ \A j \in Syncs : j < i => InFlight(j)

(* ------------------------------- sync() -------------------------------- *)
\* line 170: update((s) => ({ ...s, isSyncing: true, error: null }))
Syncing(s) == [s EXCEPT !.isSyncing = TRUE, !.error = Null]

\* lines 173-176: the invocation, called by the intent or listener `caller`
\* while hs and cs are the in-memory habits and completions, captures the
\* current scope and date and runs to its first await: cache.getMetadata()
\* with a cache, otherwise api.fetchHabits()
StartedSync(s, c, caller, hs, cs) ==
  [IdleSync EXCEPT !.pc = IF c THEN "getMetadata" ELSE "fetchHabits",
                   !.caller = caller,
                   !.before = <<hs, cs>>,
                   !.scope = s.scope,
                   !.date = s.selectedDate]

\* line 175: the date from which this invocation fetches completions
FetchFrom(i) ==
  getFetchFromDate(getHeatmapRange(sync[i].scope, sync[i].date))

\* the cache-trust check without the test for a cache that has no owner tag
MustClear_TrustsUntagged(metadata, currentUserId) ==
  LET cacheHasData == metadata.lastHabitsSync # 0
      userIdMismatch == /\ metadata.userId # Null
                        /\ currentUserId # Null
                        /\ metadata.userId # currentUserId
      suspiciousCache == currentUserId = Null /\ cacheHasData
  IN userIdMismatch \/ suspiciousCache

\* lines 187-193: the cache-trust check
MustClear(metadata, currentUserId) ==
  LET cacheHasData == metadata.lastHabitsSync # 0
      cacheHasNoUserId == cacheHasData /\ metadata.userId = Null
      userIdMismatch == /\ metadata.userId # Null
                        /\ currentUserId # Null
                        /\ metadata.userId # currentUserId
      suspiciousCache == currentUserId = Null /\ cacheHasData
  IN cacheHasNoUserId \/ userIdMismatch \/ suspiciousCache

\* the fallback condition without the test of the owner tag
CanFallBack_Untagged(c, metadata) ==
  c /\ metadata.lastHabitsSync # 0

\* line 223: the cached data may be served after a failure
CanFallBack(c, metadata) ==
  c /\ metadata.lastHabitsSync # 0 /\ metadata.userId # Null

\* an invocation returns: its slot is free again
Return(i, op, path, thrown, outcome, mirrored) ==
  /\ sync' = [sync EXCEPT ![i] = IdleSync]
  /\ returned' = [op |-> op, path |-> path, thrown |-> thrown,
                  outcome |-> outcome, mirrored |-> mirrored]

\* an outer catch that blanks the published view
TotalFailure_BlanksView(i, error) ==
  /\ state' = [applyStats(state, EmptyStatistics) EXCEPT
                 !.isSyncing = FALSE, !.error = ErrorMessage]
  /\ Return(i, "sync", "failed", error, "resolved", "none")

\* a sync without the outer catch: the failure rejects the promise
TotalFailure_Rethrows(i, error) ==
  /\ UNCHANGED state
  /\ Return(i, "sync", "failed", error, "rejected", "none")

\* an outer catch that leaves isSyncing set
TotalFailure_StaysSyncing(i, error) ==
  /\ state' = [state EXCEPT !.isLoading = FALSE, !.error = ErrorMessage]
  /\ Return(i, "sync", "failed", error, "resolved", "none")

\* lines 239-247: the outer catch publishes the error; sync() returns
TotalFailure(i, error) ==
  /\ state' = [state EXCEPT !.isLoading = FALSE,
                            !.isSyncing = FALSE,
                            !.error = ErrorMessage]
  /\ Return(i, "sync", "failed", error, "resolved", "none")

\* lines 220-231: the inner catch either goes on to read the cache or
\* rethrows to the outer catch
Catch(i, error) ==
  IF CanFallBack(cache, sync[i].metadata)
  THEN /\ sync' = [sync EXCEPT ![i].pc = "getHabits", ![i].caught = error,
                              ![i].at = sync[i].pc]
       /\ UNCHANGED <<state, returned>>
  ELSE TotalFailure(i, error)

\* a sync that hands its result to saveToServerCache whether or not
\* computeStatistics returned null
MirrorOutcomes_Always(hs) ==
  {"stored", "failed"}

\* lines 160-167 and 234-236: saveToServerCache is called unless
\* computeStatistics returned null; api.setServerCache either stores the
\* mirror or fails
MirrorOutcomes(hs) ==
  IF hs # {} THEN {"stored", "failed"} ELSE {"none"}

\* a saveToServerCache whose failure reaches the outer catch of sync
Finish_MirrorAborts(i, offline, path, hs, cs) ==
  LET computed == ComputedStatistics(hs, cs, sync[i].scope, sync[i].date)
      s1 == [state EXCEPT !.isOffline = offline]
      s2 == applyStats(s1, computed)
  IN \E m \in MirrorOutcomes(hs) :
       IF m = "failed"
       THEN /\ state' = [s2 EXCEPT !.isSyncing = FALSE,
                                   !.error = ErrorMessage]
            /\ Return(i, "sync", "failed", "ServerError", "resolved", m)
       ELSE /\ state' = [s2 EXCEPT !.isSyncing = FALSE, !.lastSync = now]
            /\ Return(i, "sync", path, Null, "resolved", m)

\* an end of the sync that leaves the offline flag as it was
Finish_KeepsOffline(i, offline, path, hs, cs) ==
  LET computed == ComputedStatistics(hs, cs, sync[i].scope, sync[i].date)
      s2 == applyStats(state, computed)
  IN \E m \in MirrorOutcomes(hs) :
       /\ state' = [s2 EXCEPT !.isSyncing = FALSE, !.lastSync = now]
       /\ Return(i, "sync", path, Null, "resolved", m)

\* lines 219/227 and 233-238: the offline flag is set, the statistics are
\* recomputed for the captured scope and date and, unless computeStatistics
\* returned null, handed to saveToServerCache (lines 160-167, which ignores
\* a failure of api.setServerCache); the end of the sync is published
Finish(i, offline, path, hs, cs) ==
  LET computed == ComputedStatistics(hs, cs, sync[i].scope, sync[i].date)
      s1 == [state EXCEPT !.isOffline = offline]
      s2 == applyStats(s1, computed)
  IN \E m \in MirrorOutcomes(hs) :
       /\ state' = [s2 EXCEPT !.isSyncing = FALSE, !.lastSync = now]
       /\ Return(i, "sync", path, Null, "resolved", m)

\* line 176: cache.getMetadata() settles
GetMetadata(i) ==
  /\ sync[i].pc = "getMetadata"
  /\ \/ /\ sync' = [sync EXCEPT ![i].metadata = store.metadata,
                                ![i].pc = "fetchHabits"]
        /\ UNCHANGED <<state, returned>>
     \/ TotalFailure(i, StorageUnavailable)
  /\ UNCHANGED <<user, now, store, cache, listening, habits,
                 completions>>
  /\ UNCHANGED <<settingsVars, notificationsVars>>

\* lines 180-206: api.fetchHabits() settles
FetchHabits(i) ==
  /\ sync[i].pc = "fetchHabits"
  /\ \/ LET fresh == fetchHabits(user)
        IN IF cache /\ MustClear(sync[i].metadata, CurrentUserId(fresh))
           THEN /\ sync' = [sync EXCEPT ![i].freshHabits = fresh,
                                        ![i].pc = "clearAll"]
                /\ UNCHANGED <<habits, state, returned>>
           ELSE /\ habits' = fresh
                /\ sync' = [sync EXCEPT ![i].freshHabits = fresh,
                                        ![i].pc = "fetchCompletions"]
                /\ UNCHANGED <<state, returned>>
     \/ /\ \E e \in FetchFailures : Catch(i, e)
        /\ UNCHANGED habits
  /\ UNCHANGED <<user, now, store, cache, listening, completions>>
  /\ UNCHANGED <<settingsVars, notificationsVars>>

\* lines 201-206: cache.clearAll() settles
ClearAll(i) ==
  /\ sync[i].pc = "clearAll"
  /\ \/ /\ store' = clearAll(store)
        /\ habits' = sync[i].freshHabits
        /\ sync' = [sync EXCEPT ![i].pc = "fetchCompletions"]
        /\ UNCHANGED <<state, returned>>
     \/ /\ Catch(i, StorageUnavailable)
        /\ UNCHANGED <<store, habits>>
  /\ UNCHANGED <<user, now, cache, listening, completions>>
  /\ UNCHANGED <<settingsVars, notificationsVars>>

\* lines 206-210: api.fetchCompletions(fetchFrom) settles
FetchCompletions(i) ==
  /\ sync[i].pc = "fetchCompletions"
  /\ \/ LET fetched == fetchCompletions(user, FetchFrom(i))
        IN /\ completions' = fetched
           /\ IF cache
              THEN /\ sync' = [sync EXCEPT ![i].pc = "setHabits",
                                           ![i].arg = habits]
                   /\ UNCHANGED <<state, returned>>
              ELSE Finish(i, FALSE, "fresh", habits, fetched)
     \/ /\ \E e \in FetchFailures : Catch(i, e)
        /\ UNCHANGED completions
  /\ UNCHANGED <<user, now, store, cache, listening, habits>>
  /\ UNCHANGED <<settingsVars, notificationsVars>>

\* lines 210-211: cache.setHabits(habits) settles
SetHabits(i) ==
  /\ sync[i].pc = "setHabits"
  /\ \/ /\ store' = setHabits(store, sync[i].arg)
        /\ sync' = [sync EXCEPT ![i].pc = "addCompletions",
                                ![i].arg = completions]
        /\ UNCHANGED <<state, returned>>
     \/ /\ Catch(i, StorageUnavailable)
        /\ UNCHANGED store
  /\ UNCHANGED <<user, now, cache, listening, habits, completions>>
  /\ UNCHANGED <<settingsVars, notificationsVars>>

\* lines 211-212: cache.addCompletions(completions) settles
AddCompletions(i) ==
  /\ sync[i].pc = "addCompletions"
  /\ \/ /\ store' = addCompletions(store, sync[i].arg)
        /\ sync' = [sync EXCEPT ![i].pc = "setMetadata", ![i].arg = {}]
        /\ UNCHANGED <<state, returned>>
     \/ /\ Catch(i, StorageUnavailable)
        /\ UNCHANGED store
  /\ UNCHANGED <<user, now, cache, listening, habits, completions>>
  /\ UNCHANGED <<settingsVars, notificationsVars>>

\* lines 212-238: cache.setMetadata(...) settles
SetMetadata(i) ==
  /\ sync[i].pc = "setMetadata"
  /\ \/ /\ store' = setMetadata(store,
                      [lastHabitsSync |-> now, lastCompletionsSync |-> now,
                       version |-> 1,
                       userId |-> CurrentUserId(sync[i].freshHabits)])
        /\ Finish(i, FALSE, "fresh", habits, completions)
     \/ /\ Catch(i, StorageUnavailable)
        /\ UNCHANGED store
  /\ UNCHANGED <<user, now, cache, listening, habits, completions>>
  /\ UNCHANGED <<settingsVars, notificationsVars>>

\* lines 225-226: cache.getHabits() settles
GetHabits(i) ==
  /\ sync[i].pc = "getHabits"
  /\ \/ /\ habits' = store.habits
        /\ sync' = [sync EXCEPT ![i].pc = "getCompletions"]
        /\ UNCHANGED <<state, returned>>
     \/ /\ TotalFailure(i, StorageUnavailable)
        /\ UNCHANGED habits
  /\ UNCHANGED <<user, now, store, cache, listening, completions>>
  /\ UNCHANGED <<settingsVars, notificationsVars>>

\* lines 226-238: cache.getCompletions() settles
GetCompletions(i) ==
  /\ sync[i].pc = "getCompletions"
  /\ \/ /\ completions' = store.completions
        /\ Finish(i, TRUE, "fallback", habits, store.completions)
     \/ /\ TotalFailure(i, StorageUnavailable)
        /\ UNCHANGED completions
  /\ UNCHANGED <<user, now, store, cache, listening, habits>>
  /\ UNCHANGED <<settingsVars, notificationsVars>>

(* ------------------------------ intents -------------------------------- *)
\* an intent is issued at a new instant of the wall clock
Tick ==
  /\ now < MaxNow
  /\ now' = now + 1

\* an intent that calls sync() or awaits starts a new invocation
Issue(i) ==
  /\ Free(i)
  /\ Tick

\* lines 287-289: refresh() calls sync()
refresh(i) ==
  /\ Issue(i)
  /\ state' = Syncing(state)
  /\ sync' = [sync EXCEPT ![i] =
       StartedSync(state, cache, "refresh",
                   habits, completions)]
  /\ UNCHANGED <<user, store, cache, listening, habits, completions,
                 returned>>
  /\ UNCHANGED <<settingsVars, notificationsVars>>

\* lines 250-257: initialize() creates the cache and awaits cache.open();
\* the page calls it once, when it is mounted
initialize(i) ==
  /\ Issue(i)
  /\ ~cache
  /\ cache' = TRUE
  /\ state' = [state EXCEPT !.isLoading = TRUE]
  /\ sync' = [sync EXCEPT ![i] = [IdleSync EXCEPT !.pc = "open"]]
  /\ UNCHANGED <<user, store, listening, habits, completions,
                 returned>>
  /\ UNCHANGED <<settingsVars, notificationsVars>>

\* lines 257-272: cache.open() settles; the listeners are registered, the
\* offline flag follows navigator.onLine and sync() is called; a failure of
\* open() rejects initialize()
Open(i) ==
  /\ sync[i].pc = "open"
  /\ \/ /\ listening' = TRUE
        /\ \E onLine \in BOOLEAN :
             state' = Syncing([state EXCEPT !.isOffline = ~onLine])
        /\ sync' = [sync EXCEPT ![i] =
             StartedSync(state, cache, "initialize",
                         habits, completions)]
        /\ UNCHANGED returned
     \/ /\ Return(i, "initialize", Null, StorageUnavailable, "rejected", "none")
        /\ UNCHANGED <<listening, state>>
  /\ UNCHANGED <<user, now, store, cache, habits, completions>>
  /\ UNCHANGED <<settingsVars, notificationsVars>>

\* lines 291-298: clearCache() awaits cache.clearAll() when there is a
\* cache; without one it resets the in-memory data and calls sync() at once
clearCache(i) ==
  /\ Issue(i)
  /\ IF cache
     THEN /\ sync' = [sync EXCEPT ![i] = [IdleSync EXCEPT !.pc = "clearCache"]]
          /\ UNCHANGED <<habits, completions, state>>
     ELSE /\ habits' = {}
          /\ completions' = {}
          /\ state' = Syncing(state)
          /\ sync' = [sync EXCEPT ![i] =
               StartedSync(state, cache, "clearCache",
                           {}, {})]
  /\ UNCHANGED <<user, store, cache, listening, returned>>
  /\ UNCHANGED <<settingsVars, notificationsVars>>

\* lines 293-297: the cache.clearAll() of clearCache() settles; a failure
\* rejects clearCache()
ClearCacheStep(i) ==
  /\ sync[i].pc = "clearCache"
  /\ \/ /\ store' = clearAll(store)
        /\ habits' = {}
        /\ completions' = {}
        /\ state' = Syncing(state)
        /\ sync' = [sync EXCEPT ![i] =
             StartedSync(state, cache, "clearCache",
                         {}, {})]
        /\ UNCHANGED returned
     \/ /\ Return(i, "clearCache", Null, StorageUnavailable, "rejected", "none")
        /\ UNCHANGED <<store, habits, completions, state>>
  /\ UNCHANGED <<user, now, cache, listening>>
  /\ UNCHANGED <<settingsVars, notificationsVars>>

\* a setScope that publishes the new scope and leaves the recomputation out
setScope_NoRecompute(scope) ==
  /\ Tick
  /\ state' = [state EXCEPT !.scope = scope, !.isLoading = TRUE]
  /\ UNCHANGED <<user, store, cache, listening, habits,
                 completions, sync, returned>>
  /\ UNCHANGED <<settingsVars, notificationsVars>>

\* lines 275-279: setScope(scope) recomputes from the in-memory data
setScope(scope) ==
  /\ Tick
  /\ state' = applyStats([state EXCEPT !.scope = scope],
                 ComputedStatistics(habits, completions, scope,
                                    state.selectedDate))
  /\ UNCHANGED <<user, store, cache, listening, habits,
                 completions, sync, returned>>
  /\ UNCHANGED <<settingsVars, notificationsVars>>

\* a setSelectedDate that publishes the date with isLoading on and leaves
\* the recomputation out
setSelectedDate_LeavesLoading(date) ==
  /\ Tick
  /\ state' = [state EXCEPT !.selectedDate = date, !.isLoading = TRUE]
  /\ UNCHANGED <<user, store, cache, listening, habits,
                 completions, sync, returned>>
  /\ UNCHANGED <<settingsVars, notificationsVars>>

\* lines 281-285: setSelectedDate(date) recomputes from the in-memory data
setSelectedDate(date) ==
  /\ Tick
  /\ state' = applyStats([state EXCEPT !.selectedDate = date],
                 ComputedStatistics(habits, completions, state.scope, date))
  /\ UNCHANGED <<user, store, cache, listening, habits,
                 completions, sync, returned>>
  /\ UNCHANGED <<settingsVars, notificationsVars>>

(* ----------------------------- environment ----------------------------- *)
\* lines 260-263: the browser comes online; the registered listener clears
\* the offline flag and calls sync()
Online(i) ==
  /\ listening
  /\ Issue(i)
  /\ state' = Syncing([state EXCEPT !.isOffline = FALSE])
  /\ sync' = [sync EXCEPT ![i] =
       StartedSync(state, cache, "online",
                   habits, completions)]
  /\ UNCHANGED <<user, store, cache, listening, habits, completions,
                 returned>>
  /\ UNCHANGED <<settingsVars, notificationsVars>>

\* lines 264-266: the browser goes offline; the registered listener sets the
\* offline flag
Offline ==
  /\ listening
  /\ state' = [state EXCEPT !.isOffline = TRUE]
  /\ UNCHANGED <<user, now, store, cache, listening, habits, completions,
                 sync, returned>>
  /\ UNCHANGED <<settingsVars, notificationsVars>>

Next ==
  \/ \E i \in Syncs : refresh(i)
  \/ \E i \in Syncs : initialize(i)
  \/ \E i \in Syncs : Open(i)
  \/ \E i \in Syncs : clearCache(i)
  \/ \E i \in Syncs : ClearCacheStep(i)
  \/ \E i \in Syncs : GetMetadata(i)
  \/ \E i \in Syncs : FetchHabits(i)
  \/ \E i \in Syncs : ClearAll(i)
  \/ \E i \in Syncs : FetchCompletions(i)
  \/ \E i \in Syncs : SetHabits(i)
  \/ \E i \in Syncs : AddCompletions(i)
  \/ \E i \in Syncs : SetMetadata(i)
  \/ \E i \in Syncs : GetHabits(i)
  \/ \E i \in Syncs : GetCompletions(i)
  \/ \E s \in Scopes : setScope(s)
  \/ \E d \in SelectableDates : setSelectedDate(d)
  \/ \E i \in Syncs : Online(i)
  \/ Offline

Spec == Init /\ [][Next]_vars

\* the awaited call an invocation is waiting for settles
Settle(i) ==
  \/ Open(i)
  \/ ClearCacheStep(i)
  \/ GetMetadata(i)
  \/ FetchHabits(i)
  \/ ClearAll(i)
  \/ FetchCompletions(i)
  \/ SetHabits(i)
  \/ AddCompletions(i)
  \/ SetMetadata(i)
  \/ GetHabits(i)
  \/ GetCompletions(i)

\* every awaited fetch or storage call settles, and the event loop then
\* resumes the invocation that awaits it: weak fairness of Settle(i), which
\* is enabled exactly while invocation i is in flight
LiveSpec ==
  Spec /\ \A i \in Syncs : ([]<>(~InFlight(i))) \/ ([]<><<Settle(i)>>_vars)

(* -------------------------- settings presenter ------------------------- *)
CallInFlight(c) == calls[c].op # "idle"
\* a new call takes the first slot that is not in use
FreeCall(c) == ~CallInFlight(c) /\ \A d \in Calls : d < c => CallInFlight(d)

\* an intent of the settings page is issued
Intent ==
  /\ issued < MaxIssued
  /\ issued' = issued + 1

\* lines 460-487: applySettings(settings) writes the fields of the response
\* into the state; reduceMotion is not among them
applySettings(s, response) ==
  [s EXCEPT !.name = response.name, !.avatarUrl = response.imageUrl]

\* a setField that keeps a field tracked when it is set back to its original
setField_KeepsTracking(field, value) ==
  LET existing == changes[field]
      original == IF existing # NoChange THEN existing.original
                  ELSE settings[field]
  IN /\ settings' = [settings EXCEPT ![field] = value]
     /\ changes' = [changes EXCEPT ![field] =
                      [original |-> original, current |-> value]]
     /\ motionStore' = IF field = "reduceMotion" THEN value ELSE motionStore
     /\ calls' = calls
     /\ UNCHANGED <<storage, account, saved, uploaded, settled>>
     /\ Intent
     /\ UNCHANGED <<statisticsVars, notificationsVars>>

\* lines 526-554: setField(field, value) writes the value and tracks the
\* change against the value the field had when it was first edited; the
\* calls in flight note the edit
setField(field, value) ==
  LET existing == changes[field]
      original == IF existing # NoChange THEN existing.original
                  ELSE settings[field]
  IN /\ settings' = [settings EXCEPT ![field] = value]
     /\ changes' = [changes EXCEPT ![field] =
                      IF original = value THEN NoChange
                      ELSE [original |-> original, current |-> value]]
     /\ motionStore' = IF field = "reduceMotion" THEN value ELSE motionStore
     /\ calls' = [c \in Calls |->
                    IF calls[c].op \in {"loadSettings", "saveAll"}
                    THEN [calls[c] EXCEPT !.edited = @ \cup {field}]
                    ELSE calls[c]]
     /\ UNCHANGED <<storage, account, saved, uploaded, settled>>
     /\ Intent
     /\ UNCHANGED <<statisticsVars, notificationsVars>>

\* lines 600-617: discardAll() writes every tracked original back and
\* empties the change set
discardAll ==
  LET restored == [f \in SettingsFields |->
                     IF changes[f] # NoChange THEN changes[f].original
                     ELSE settings[f]]
  IN /\ settings' = [settings EXCEPT !.name = restored["name"],
                                     !.reduceMotion = restored["reduceMotion"]]
     /\ motionStore' = IF changes["reduceMotion"] # NoChange
                       THEN changes["reduceMotion"].original
                       ELSE motionStore
     /\ changes' = NoChanges
     /\ saved' = restored
     /\ UNCHANGED <<storage, account, calls, uploaded, settled>>
     /\ Intent
     /\ UNCHANGED <<statisticsVars, notificationsVars>>

\* lines 433-444 and 490-498: initFromCache() applies the cached response
\* when readCache() finds an entry that has not expired
initFromCache ==
  /\ storage # NullRecord
  /\ settings' = [applySettings(settings, storage) EXCEPT !.isLoading = FALSE]
  /\ UNCHANGED <<changes, storage, motionStore, account, calls, saved,
                 uploaded, settled>>
  /\ Intent
  /\ UNCHANGED <<statisticsVars, notificationsVars>>

\* lines 437-439: the entry grows older than SETTINGS_CACHE_TTL_MS; readCache
\* finds nothing from then on
CacheExpires ==
  /\ storage # NullRecord
  /\ storage' = NullRecord
  /\ UNCHANGED <<settings, changes, motionStore, account, calls, saved,
                 uploaded, settled>>
  /\ UNCHANGED issued
  /\ UNCHANGED <<statisticsVars, notificationsVars>>

\* lines 501-503: loadSettings() awaits getSession() and api.getPreferences()
loadSettings(c) ==
  /\ FreeCall(c)
  /\ calls' = [calls EXCEPT ![c] =
                 [IdleCall EXCEPT !.op = "loadSettings", !.pc = "sent"]]
  /\ UNCHANGED <<settings, changes, storage, motionStore, account, saved,
                 uploaded, settled>>
  /\ Intent
  /\ UNCHANGED <<statisticsVars, notificationsVars>>

\* lines 557-584: saveAll() publishes isSaving, builds the settings from the
\* current state (an empty name is sent as undefined) and awaits
\* api.updatePreferences
saveAll(c) ==
  /\ FreeCall(c)
  /\ settings' = [settings EXCEPT !.isSaving = TRUE, !.error = Null]
  /\ calls' = [calls EXCEPT ![c] =
                 [IdleCall EXCEPT !.op = "saveAll", !.pc = "sent",
                                  !.body = [name |-> settings.name]]]
  /\ UNCHANGED <<changes, storage, motionStore, account, saved, uploaded,
                 settled>>
  /\ Intent
  /\ UNCHANGED <<statisticsVars, notificationsVars>>

\* lines 620-624: uploadAvatar(file) publishes isUploadingAvatar and awaits
\* api.uploadAvatar
uploadAvatar(c) ==
  /\ FreeCall(c)
  /\ account.imageUrl
       + Cardinality({d \in Calls : /\ calls[d].op = "uploadAvatar"
                                    /\ calls[d].pc = "sent"}) < MaxUploads
  /\ settings' = [settings EXCEPT !.isUploadingAvatar = TRUE, !.error = Null]
  /\ calls' = [calls EXCEPT ![c] =
                 [IdleCall EXCEPT !.op = "uploadAvatar", !.pc = "sent"]]
  /\ UNCHANGED <<changes, storage, motionStore, account, saved, uploaded,
                 settled>>
  /\ Intent
  /\ UNCHANGED <<statisticsVars, notificationsVars>>

\* the server handles a request: GET /api/user/preferences answers with the
\* account, PATCH merges the fields that were sent, POST /api/user/avatar
\* stores the file under a new URL
Handle(c) ==
  /\ calls[c].pc = "sent"
  /\ account' =
       CASE calls[c].op = "saveAll" ->
              [account EXCEPT !.name = IF calls[c].body.name = "" THEN @
                                       ELSE calls[c].body.name]
         [] calls[c].op = "uploadAvatar" ->
              [account EXCEPT !.imageUrl = @ + 1]
         [] OTHER -> account
  /\ calls' = [calls EXCEPT ![c].pc = "answered", ![c].response = account']
  /\ UNCHANGED <<settings, changes, storage, motionStore, saved, uploaded,
                 settled>>
  /\ UNCHANGED issued
  /\ UNCHANGED <<statisticsVars, notificationsVars>>

\* a call returns: its slot is free again
CallReturns(c, success, rejected) ==
  /\ calls' = [calls EXCEPT ![c] = IdleCall]
  /\ settled' = [op |-> calls[c].op, success |-> success,
                 rejected |-> rejected]

\* lines 503-522: the await of loadSettings() settles. The response is
\* applied and cached, the change set is emptied and reduceMotion is read
\* from motionStore; a failure is published and rethrown
LoadSettled(c) ==
  /\ calls[c].op = "loadSettings"
  /\ \/ /\ calls[c].pc = "answered"
        /\ settings' = [applySettings(settings, calls[c].response) EXCEPT
                          !.reduceMotion = motionStore, !.isLoading = FALSE]
        /\ storage' = calls[c].response
        /\ changes' = NoChanges
        /\ saved' = [f \in SettingsFields |-> settings'[f]]
        /\ CallReturns(c, TRUE, FALSE)
     \/ /\ settings' = [settings EXCEPT !.error = LoadFailure,
                                        !.isLoading = FALSE]
        /\ CallReturns(c, FALSE, TRUE)
        /\ UNCHANGED <<storage, changes, saved>>
  /\ UNCHANGED <<motionStore, account, uploaded>>
  /\ UNCHANGED issued
  /\ UNCHANGED <<statisticsVars, notificationsVars>>

\* a saveAll() whose failure path also empties the change set and leaves
\* isSaving set
SaveSettled_ForgetsOnFailure(c) ==
  /\ calls[c].op = "saveAll"
  /\ \/ /\ calls[c].pc = "answered"
        /\ settings' = [applySettings(settings, calls[c].response) EXCEPT
                          !.isSaving = FALSE]
        /\ storage' = calls[c].response
        /\ changes' = NoChanges
        /\ saved' = [f \in SettingsFields |-> settings'[f]]
        /\ CallReturns(c, TRUE, FALSE)
     \/ /\ settings' = [settings EXCEPT !.error = SaveFailure]
        /\ changes' = NoChanges
        /\ CallReturns(c, FALSE, FALSE)
        /\ UNCHANGED <<storage, saved>>
  /\ UNCHANGED <<motionStore, account, uploaded>>
  /\ UNCHANGED issued
  /\ UNCHANGED <<statisticsVars, notificationsVars>>

\* lines 584-596: the await of saveAll() settles. The response is applied
\* and cached and the change set is emptied; a failure is published and
\* returned as { success: false }
SaveSettled(c) ==
  /\ calls[c].op = "saveAll"
  /\ \/ /\ calls[c].pc = "answered"
        /\ settings' = [applySettings(settings, calls[c].response) EXCEPT
                          !.isSaving = FALSE]
        /\ storage' = calls[c].response
        /\ changes' = NoChanges
        /\ saved' = [f \in SettingsFields |-> settings'[f]]
        /\ CallReturns(c, TRUE, FALSE)
     \/ /\ settings' = [settings EXCEPT !.error = SaveFailure,
                                        !.isSaving = FALSE]
        /\ CallReturns(c, FALSE, FALSE)
        /\ UNCHANGED <<storage, changes, saved>>
  /\ UNCHANGED <<motionStore, account, uploaded>>
  /\ UNCHANGED issued
  /\ UNCHANGED <<statisticsVars, notificationsVars>>

\* lines 624-637: the await of uploadAvatar() settles. The new URL is
\* published and the settings cache entry is removed; a failure is published
\* and returned as { success: false }
UploadSettled(c) ==
  /\ calls[c].op = "uploadAvatar"
  /\ \/ /\ calls[c].pc = "answered"
        /\ settings' = [settings EXCEPT
                          !.avatarUrl = calls[c].response.imageUrl,
                          !.isUploadingAvatar = FALSE]
        /\ storage' = NullRecord
        /\ uploaded' = calls[c].response.imageUrl
        /\ CallReturns(c, TRUE, FALSE)
     \/ /\ settings' = [settings EXCEPT !.error = UploadFailure,
                                        !.isUploadingAvatar = FALSE]
        /\ CallReturns(c, FALSE, FALSE)
        /\ UNCHANGED <<storage, uploaded>>
  /\ UNCHANGED <<changes, motionStore, account, saved>>
  /\ UNCHANGED issued
  /\ UNCHANGED <<statisticsVars, notificationsVars>>

SettingsNext ==
  \/ \E f \in SettingsFields : \E v \in FieldValues(f) : setField(f, v)
  \/ discardAll
  \/ initFromCache
  \/ CacheExpires
  \/ \E c \in Calls : loadSettings(c)
  \/ \E c \in Calls : saveAll(c)
  \/ \E c \in Calls : uploadAvatar(c)
  \/ \E c \in Calls : Handle(c)
  \/ \E c \in Calls : LoadSettled(c)
  \/ \E c \in Calls : SaveSettled(c)
  \/ \E c \in Calls : UploadSettled(c)

\* the settings page of user A: the statistics and notifications presenters
\* stay as constructed
SettingsPageInit == Init /\ user = "A" /\ store = EmptyStore

SettingsSpec == SettingsPageInit /\ [][SettingsNext]_vars

\* no settings call is in flight
Quiet == \A c \in Calls : ~CallInFlight(c)

\* the settings page when setField, discardAll, saveAll and loadSettings are
\* called one after the other, each after the one before has returned
SequentialSettingsNext ==
  \/ Quiet /\ \E f \in SettingsFields : \E v \in FieldValues(f) : setField(f, v)
  \/ Quiet /\ discardAll
  \/ Quiet /\ loadSettings(1)
  \/ Quiet /\ saveAll(1)
  \/ Handle(1)
  \/ LoadSettled(1)
  \/ SaveSettled(1)

SequentialSettingsSpec ==
  SettingsPageInit /\ [][SequentialSettingsNext]_vars

(* ----------------------- notifications presenter ----------------------- *)
RequestInFlight(r) == requests[r].op # "idle"
\* a new request takes the first slot that is not in use
FreeRequest(r) ==
  ~RequestInFlight(r) /\ \A q \in Requests : q < r => RequestInFlight(q)

\* an intent of the notifications presenter is called
Ask ==
  /\ asked < MaxAsked
  /\ asked' = asked + 1

\* the notifications the server lists, oldest first; a page holds one
ListedIds == {n \in NotificationIds : inbox[n] # "gone"}
RECURSIVE Listing(_)
Listing(ids) ==
  IF ids = {} THEN <<>>
  ELSE LET n == CHOOSE m \in ids : \A k \in ids : m <= k
       IN <<[id |-> n, read |-> inbox[n] = "read"]>> \o Listing(ids \ {n})

PageOf(page) ==
  IF page <= Len(Listing(ListedIds)) THEN <<Listing(ListedIds)[page]>>
  ELSE <<>>

\* n is in the list and unread: notification && !notification.read for the
\* first entry with that id (lines 132-133, 171-172)
wasUnread(list, n) ==
  /\ \E i \in 1..Len(list) : list[i].id = n
  /\ LET first == CHOOSE i \in 1..Len(list) :
                    /\ list[i].id = n
                    /\ \A j \in 1..(i - 1) : list[j].id # n
     IN ~list[first].read

\* Math.max(0, s.unreadCount - 1)
Decrement(count) == IF count - 1 > 0 THEN count - 1 ELSE 0

\* lines 69-77: fetchUnreadCount() awaits api.fetchUnreadCount()
fetchUnreadCount(r) ==
  /\ FreeRequest(r)
  /\ requests' = [requests EXCEPT ![r] =
                    [IdleRequest EXCEPT !.op = "fetchUnreadCount",
                                        !.pc = "sent"]]
  /\ UNCHANGED <<notifs, inbox, loaded, decremented, answered>>
  /\ Ask
  /\ UNCHANGED <<statisticsVars, settingsVars>>

\* lines 79-87: fetchNotifications(reset) returns at once while loading is
\* set; otherwise it publishes loading, picks the page and awaits
\* api.fetchNotifications(pageToFetch)
StartedFetch(s, reset, caller) ==
  [IdleRequest EXCEPT !.op = "fetchNotifications", !.pc = "sent",
                      !.caller = caller, !.reset = reset,
                      !.page = IF reset THEN 1 ELSE s.page]

fetchNotifications(r, reset) ==
  /\ FreeRequest(r)
  /\ IF notifs.loading
     THEN UNCHANGED <<notifs, requests>>
     ELSE /\ notifs' = [notifs EXCEPT !.loading = TRUE, !.error = Null]
          /\ requests' = [requests EXCEPT ![r] =
                            StartedFetch(notifs, reset, "fetchNotifications")]
  /\ UNCHANGED <<inbox, loaded, decremented, answered>>
  /\ Ask
  /\ UNCHANGED <<statisticsVars, settingsVars>>

\* lines 119-125: loadMore() advances the page and calls fetchNotifications()
\* when there is more and nothing is loading; otherwise it does nothing
loadMore(r) ==
  /\ FreeRequest(r)
  /\ IF notifs.hasMore /\ ~notifs.loading
     THEN LET advanced == [notifs EXCEPT !.page = @ + 1]
          IN /\ notifs' = [advanced EXCEPT !.loading = TRUE, !.error = Null]
             /\ requests' = [requests EXCEPT ![r] =
                               StartedFetch(advanced, FALSE, "loadMore")]
     ELSE UNCHANGED <<notifs, requests>>
  /\ UNCHANGED <<inbox, loaded, decremented, answered>>
  /\ Ask
  /\ UNCHANGED <<statisticsVars, settingsVars>>

\* lines 127-129: markAsRead(notificationId) awaits api.markAsRead
markAsRead(r, n) ==
  /\ FreeRequest(r)
  /\ requests' = [requests EXCEPT ![r] =
                    [IdleRequest EXCEPT !.op = "markAsRead", !.pc = "sent",
                                        !.id = n]]
  /\ UNCHANGED <<notifs, inbox, loaded, decremented, answered>>
  /\ Ask
  /\ UNCHANGED <<statisticsVars, settingsVars>>

\* lines 150-152: markAllAsRead() awaits api.markAllAsRead
markAllAsRead(r) ==
  /\ FreeRequest(r)
  /\ requests' = [requests EXCEPT ![r] =
                    [IdleRequest EXCEPT !.op = "markAllAsRead",
                                        !.pc = "sent"]]
  /\ UNCHANGED <<notifs, inbox, loaded, decremented, answered>>
  /\ Ask
  /\ UNCHANGED <<statisticsVars, settingsVars>>

\* lines 166-168: dismiss(notificationId) awaits api.dismiss
dismiss(r, n) ==
  /\ FreeRequest(r)
  /\ requests' = [requests EXCEPT ![r] =
                    [IdleRequest EXCEPT !.op = "dismiss", !.pc = "sent",
                                        !.id = n]]
  /\ UNCHANGED <<notifs, inbox, loaded, decremented, answered>>
  /\ Ask
  /\ UNCHANGED <<statisticsVars, settingsVars>>

\* lines 187-197: reset() publishes the initial state
reset ==
  /\ notifs' = initialNotifications
  /\ loaded' = <<>>
  /\ decremented' = {}
  /\ UNCHANGED <<inbox, requests, answered>>
  /\ Ask
  /\ UNCHANGED <<statisticsVars, settingsVars>>

\* the server handles a request: it counts the unread notifications, lists a
\* page, marks one or all as read, or removes one; a request for a
\* notification it no longer holds is refused
Serve(r) ==
  /\ requests[r].pc = "sent"
  /\ LET q == requests[r]
     IN CASE q.op = "fetchUnreadCount" ->
               /\ requests' = [requests EXCEPT ![r].pc = "answered",
                     ![r].count = Cardinality({n \in NotificationIds :
                                                 inbox[n] = "unread"})]
               /\ inbox' = inbox
          [] q.op = "fetchNotifications" ->
               /\ requests' = [requests EXCEPT ![r].pc = "answered",
                     ![r].data = PageOf(q.page),
                     ![r].hasMore = q.page < Len(Listing(ListedIds))]
               /\ inbox' = inbox
          [] q.op = "markAllAsRead" ->
               /\ requests' = [requests EXCEPT ![r].pc = "answered"]
               /\ inbox' = [n \in NotificationIds |->
                              IF inbox[n] = "unread" THEN "read" ELSE inbox[n]]
          [] OTHER ->
               IF inbox[q.id] = "gone"
               THEN /\ requests' = [requests EXCEPT ![r].pc = "refused"]
                    /\ inbox' = inbox
               ELSE /\ requests' = [requests EXCEPT ![r].pc = "answered"]
                    /\ inbox' = [inbox EXCEPT ![q.id] =
                                   IF q.op = "dismiss" THEN "gone" ELSE "read"]
  /\ UNCHANGED <<notifs, asked, loaded, decremented, answered>>
  /\ UNCHANGED <<statisticsVars, settingsVars>>

\* a request returns: its slot is free again; no intent of this presenter
\* rethrows
RequestReturns(r, failed) ==
  /\ requests' = [requests EXCEPT ![r] = IdleRequest]
  /\ answered' = [op |-> requests[r].op, failed |-> failed,
                  rejected |-> FALSE]

\* lines 71-76: the await of fetchUnreadCount() settles
CountSettled(r) ==
  /\ requests[r].op = "fetchUnreadCount"
  /\ \/ /\ requests[r].pc = "answered"
        /\ notifs' = [notifs EXCEPT !.unreadCount = requests[r].count,
                                    !.error = Null]
        /\ RequestReturns(r, FALSE)
     \/ /\ notifs' = [notifs EXCEPT !.error = "Failed to fetch unread count"]
        /\ RequestReturns(r, TRUE)
  /\ UNCHANGED <<inbox, asked, loaded, decremented>>
  /\ UNCHANGED <<statisticsVars, settingsVars>>

\* lines 87-116: the await of fetchNotifications() settles. The page replaces
\* the list (reset) or is appended to it, and loading is cleared; a failure
\* clears loading and publishes the error
FetchSettled(r) ==
  /\ requests[r].op = "fetchNotifications"
  /\ LET q == requests[r]
     IN \/ /\ q.pc = "answered"
           /\ notifs' = [notifs EXCEPT
                           !.notifications = IF q.reset THEN q.data
                                             ELSE @ \o q.data,
                           !.hasMore = q.hasMore,
                           !.page = IF q.reset THEN 1 ELSE @,
                           !.initialized = TRUE,
                           !.loading = FALSE,
                           !.error = Null]
           /\ loaded' = IF q.reset THEN <<q.page>> ELSE Append(loaded, q.page)
           /\ RequestReturns(r, FALSE)
        \/ /\ notifs' = [notifs EXCEPT !.loading = FALSE,
                           !.error = "Failed to fetch notifications"]
           /\ loaded' = loaded
           /\ RequestReturns(r, TRUE)
  /\ UNCHANGED <<inbox, asked, decremented>>
  /\ UNCHANGED <<statisticsVars, settingsVars>>

\* lines 129-147: the await of markAsRead() settles
MarkSettled(r) ==
  /\ requests[r].op = "markAsRead"
  /\ LET n == requests[r].id
         unread == wasUnread(notifs.notifications, n)
     IN \/ /\ requests[r].pc = "answered"
           /\ notifs' = [notifs EXCEPT
                           !.unreadCount = IF unread THEN Decrement(@) ELSE @,
                           !.notifications =
                              [i \in 1..Len(@) |->
                                 IF @[i].id = n THEN [@[i] EXCEPT !.read = TRUE]
                                 ELSE @[i]],
                           !.error = Null]
           /\ decremented' = IF notifs'.unreadCount < notifs.unreadCount
                             THEN decremented \cup {n} ELSE decremented
           /\ RequestReturns(r, FALSE)
        \/ /\ notifs' = [notifs EXCEPT
                           !.error = "Failed to mark notification as read"]
           /\ decremented' = decremented
           /\ RequestReturns(r, TRUE)
  /\ UNCHANGED <<inbox, asked, loaded>>
  /\ UNCHANGED <<statisticsVars, settingsVars>>

\* lines 152-163: the await of markAllAsRead() settles
MarkAllSettled(r) ==
  /\ requests[r].op = "markAllAsRead"
  /\ \/ /\ requests[r].pc = "answered"
        /\ notifs' = [notifs EXCEPT
                        !.notifications =
                           [i \in 1..Len(@) |-> [@[i] EXCEPT !.read = TRUE]],
                        !.unreadCount = 0,
                        !.error = Null]
        /\ RequestReturns(r, FALSE)
     \/ /\ notifs' = [notifs EXCEPT
                        !.error = "Failed to mark all notifications as read"]
        /\ RequestReturns(r, TRUE)
  /\ UNCHANGED <<inbox, asked, loaded, decremented>>
  /\ UNCHANGED <<statisticsVars, settingsVars>>

\* a dismiss() that removes the notification from the list although the
\* request has failed
DismissSettled_RemovesOnFailure(r) ==
  /\ requests[r].op = "dismiss"
  /\ LET n == requests[r].id
         unread == wasUnread(notifs.notifications, n)
     IN \/ /\ requests[r].pc = "answered"
           /\ notifs' = [notifs EXCEPT
                           !.unreadCount = IF unread THEN Decrement(@) ELSE @,
                           !.notifications =
                              SelectSeq(@, LAMBDA e : e.id # n),
                           !.error = Null]
           /\ decremented' = IF notifs'.unreadCount < notifs.unreadCount
                             THEN decremented \cup {n} ELSE decremented
           /\ RequestReturns(r, FALSE)
        \/ /\ notifs' = [notifs EXCEPT
                           !.notifications =
                              SelectSeq(@, LAMBDA e : e.id # n),
                           !.error = "Failed to dismiss notification"]
           /\ decremented' = decremented
           /\ RequestReturns(r, TRUE)
  /\ UNCHANGED <<inbox, asked, loaded>>
  /\ UNCHANGED <<statisticsVars, settingsVars>>

\* lines 168-184: the await of dismiss() settles
DismissSettled(r) ==
  /\ requests[r].op = "dismiss"
  /\ LET n == requests[r].id
         unread == wasUnread(notifs.notifications, n)
     IN \/ /\ requests[r].pc = "answered"
           /\ notifs' = [notifs EXCEPT
                           !.unreadCount = IF unread THEN Decrement(@) ELSE @,
                           !.notifications =
                              SelectSeq(@, LAMBDA e : e.id # n),
                           !.error = Null]
           /\ decremented' = IF notifs'.unreadCount < notifs.unreadCount
                             THEN decremented \cup {n} ELSE decremented
           /\ RequestReturns(r, FALSE)
        \/ /\ notifs' = [notifs EXCEPT
                           !.error = "Failed to dismiss notification"]
           /\ decremented' = decremented
           /\ RequestReturns(r, TRUE)
  /\ UNCHANGED <<inbox, asked, loaded>>
  /\ UNCHANGED <<statisticsVars, settingsVars>>

NotificationsNext ==
  \/ \E r \in Requests : fetchUnreadCount(r)
  \/ \E r \in Requests : \E reset_ \in BOOLEAN : fetchNotifications(r, reset_)
  \/ \E r \in Requests : loadMore(r)
  \/ \E r \in Requests : \E n \in NotificationIds : markAsRead(r, n)
  \/ \E r \in Requests : markAllAsRead(r)
  \/ \E r \in Requests : \E n \in NotificationIds : dismiss(r, n)
  \/ reset
  \/ \E r \in Requests : Serve(r)
  \/ \E r \in Requests : CountSettled(r)
  \/ \E r \in Requests : FetchSettled(r)
  \/ \E r \in Requests : MarkSettled(r)
  \/ \E r \in Requests : MarkAllSettled(r)
  \/ \E r \in Requests : DismissSettled(r)

\* the notifications presenter of user A: the statistics and settings
\* presenters stay as constructed
NotificationsPresenterInit == Init /\ user = "A" /\ store = EmptyStore

NotificationsSpec == NotificationsPresenterInit /\ [][NotificationsNext]_vars

(* ------------------------------ properties ---------------------------- *)
\* the positions inside sync() (lines 169-248)
SyncPcs ==
  {"getMetadata", "fetchHabits", "clearAll", "fetchCompletions", "setHabits",
   "addCompletions", "setMetadata", "getHabits", "getCompletions"}
\* the positions inside the inner try block (lines 179-219)
TryPcs ==
  {"fetchHabits", "clearAll", "fetchCompletions", "setHabits",
   "addCompletions", "setMetadata"}
\* the positions of the fallback to the Local Store (lines 225-226)
FallbackPcs == {"getHabits", "getCompletions"}

InSync(i) == sync[i].pc \in SyncPcs
NoneInFlight == \A i \in Syncs : ~InFlight(i)

\* invocation i returns in this step
Returns(i) == sync[i].pc \in SyncPcs /\ sync'[i].pc = "idle"

\* invocation i read metadata tagged with one user and fetched the habits of
\* another
Mismatch(i) ==
  /\ sync[i].metadata.userId # Null
  /\ CurrentUserId(sync[i].freshHabits) # Null
  /\ sync[i].metadata.userId # CurrentUserId(sync[i].freshHabits)

\* C1: at most one sync is in flight at any time (a second request made
\* while a sync is in flight starts no second fetch cycle)
C1_AtMostOneSyncInFlight ==
  Cardinality({i \in Syncs : InSync(i)}) <= 1

\* C2: the habits and completions that computeStatistics aggregates belong
\* to the account that is signed in
C2_AggregatedDataOwnedByUser ==
  /\ \A h \in habits : h.userId = user
  /\ \A c \in completions : c.userId = user

\* C3: a sync that read metadata tagged A and fetched the habits of B is past
\* its clearAll before it writes, and when it ends no completion owned by A
\* is left in the Local Store
C3_NoForeignCompletionAfterSync ==
  [][\A i \in Syncs :
       (Mismatch(i) /\ Returns(i)) =>
          \A c \in store'.completions : c.userId # sync[i].metadata.userId]_vars

\* C4: once a sync has finished, the published statistics are those of the
\* scope and date the state holds then
C4_StatsOfCurrentScope ==
  (NoneInFlight /\ returned.path \in {"fresh", "fallback"}) =>
     StatsOf(state) =
       ComputedStatistics(habits, completions, state.scope, state.selectedDate)

\* C5: when a sync that fetched and stored its data returns and no other is
\* in flight, the in-memory data, the Local Store and the metadata tag are
\* those of its own fetch cycle
C5_OneFetchCycle ==
  [][\A i \in Syncs :
       (/\ Returns(i)
        /\ sync[i].pc = "setMetadata"
        /\ returned'.path = "fresh"
        /\ \A j \in Syncs : ~InFlight(j)')
       => /\ habits' = sync[i].freshHabits
          /\ completions' = fetchCompletions(user, FetchFrom(i))
          /\ store'.habits = habits'
          /\ completions' \subseteq store'.completions
          /\ store'.metadata.userId = CurrentUserId(habits')]_vars

\* C6: cached data is loaded after a failure only when the metadata read by
\* the sync carries a sync timestamp and an owner tag; otherwise the failure
\* ends the sync with an error and the in-memory data as it was
C6_FallbackOnlyIfTagged ==
  [][\A i \in Syncs :
       /\ sync'[i].pc \in FallbackPcs =>
             /\ cache
             /\ sync'[i].metadata.lastHabitsSync # 0
             /\ sync'[i].metadata.userId # Null
       /\ (/\ sync[i].pc \in TryPcs
           /\ ~(/\ cache
                /\ sync[i].metadata.lastHabitsSync # 0
                /\ sync[i].metadata.userId # Null)
           /\ Returns(i)
           /\ returned'.path = "failed")
          => /\ state'.error # Null
             /\ habits' = habits
             /\ completions' = completions]_vars

\* C6 witness: a fetch failed for a sync whose metadata carries no owner
\* tag; the sync ended with an error
C6_Witness ==
  /\ returned.path = "failed"
  /\ returned.thrown \in FetchFailures
  /\ cache
  /\ store.metadata.lastHabitsSync # 0
  /\ store.metadata.userId = Null
  /\ state.error # Null

\* C7: a sync whose fetchHabits failed and that falls back to the cache
\* ends with the cached habits and completions in memory, the statistics
\* computed from them, the offline flag set and no error published
C7_OfflineFallback ==
  [][\A i \in Syncs :
       (/\ sync[i].pc = "getCompletions"
        /\ sync[i].at = "fetchHabits"
        /\ Returns(i)
        /\ returned'.path = "fallback")
       => /\ habits' = store.habits
          /\ completions' = store.completions
          /\ StatsOf(state') =
               ComputedStatistics(store.habits, store.completions,
                                  sync[i].scope, sync[i].date)
          /\ state'.isOffline
          /\ state'.error = Null]_vars

\* C8: a sync whose fetch failed with Unauthenticated ends with an error
C8_UnauthenticatedIsAnError ==
  [][\A i \in Syncs :
       (/\ Returns(i)
        /\ \/ sync[i].caught = "Unauthenticated"
           \/ returned'.thrown = "Unauthenticated")
       => state'.error # Null]_vars

\* C9: a sync that fails completely ends with isLoading off and an error,
\* and neither it nor any step of a sync before its end changes the offline
\* flag or the published statistics
C9_TotalFailureKeepsView ==
  [][\A i \in Syncs :
       /\ (Returns(i) /\ returned'.path = "failed")
          => /\ ~state'.isLoading
             /\ state'.error # Null
             /\ state'.isOffline = state.isOffline
             /\ StatsOf(state') = StatsOf(state)
       /\ (InSync(i) /\ sync'[i].pc \in SyncPcs /\ sync'[i] # sync[i])
          => /\ state'.isOffline = state.isOffline
             /\ StatsOf(state') = StatsOf(state)]_vars

\* C9 witness: a sync failed completely while a computed view was published
C9_Witness ==
  /\ returned.path = "failed"
  /\ state.error # Null
  /\ ~state.isLoading
  /\ state.periodStats # NullRecord

\* C10 as claimed: a sync whose fetchHabits failed with Unauthenticated and
\* that has no cache to fall back to rejects
C10_UnauthenticatedRejects ==
  (returned.op = "sync" /\ returned.thrown = "Unauthenticated")
     => returned.outcome = "rejected"

\* C10 as amended: such a sync resolves; the failure is published as the
\* error of the state
C10_UnauthenticatedResolves ==
  [][\A i \in Syncs :
       (Returns(i) /\ returned'.thrown = "Unauthenticated")
       => /\ returned'.outcome = "resolved"
          /\ returned'.path = "failed"
          /\ state'.error # Null
          /\ ~state'.isSyncing]_vars

\* C10 witness: fetchHabits failed with Unauthenticated without a cache
C10_Witness ==
  /\ returned.op = "sync"
  /\ returned.thrown = "Unauthenticated"
  /\ ~cache
  /\ state.error # Null

\* C11: every sync that is in flight returns, and the state it returns in
\* has isSyncing off, whether it fetched, fell back or failed
C11_SyncEndsNotSyncing ==
  \A i \in Syncs : InSync(i) ~> (~InSync(i) /\ ~state.isSyncing)

\* C11 witness: a sync has failed completely, none is in flight and
\* isSyncing is off
C11_Witness ==
  /\ returned.op = "sync"
  /\ returned.path = "failed"
  /\ NoneInFlight
  /\ ~state.isSyncing

\* C12: when a sync returns, lastSync is the time of its completion
C12_LastSyncAtCompletion ==
  [][\A i \in Syncs : Returns(i) => state'.lastSync = now]_vars

\* the metadata shows an earlier sync but carries no owner tag
Untagged(metadata) ==
  metadata.lastHabitsSync # 0 /\ metadata.userId = Null

\* C13: a sync that read untagged metadata goes from a successful fetchHabits
\* to clearAll, and it reaches fetchCompletions and its writes only through a
\* clearAll that has emptied the Local Store
C13_UntaggedCacheCleared ==
  [][\A i \in Syncs :
       Untagged(sync[i].metadata) =>
         /\ (sync[i].pc = "fetchHabits" /\ sync'[i].pc \in TryPcs
               /\ sync'[i].pc # "fetchHabits")
            => sync'[i].pc = "clearAll"
         /\ (sync[i].pc = "clearAll" /\ sync'[i].pc = "fetchCompletions")
            => store' = EmptyStore]_vars

\* C13 witness: a sync that read untagged metadata has emptied the Local
\* Store and is about to write the fetched habits
C13_Witness ==
  \E i \in Syncs :
    /\ Untagged(sync[i].metadata)
    /\ sync[i].pc = "setHabits"
    /\ sync[i].arg # {}
    /\ store = EmptyStore

\* the fetchHabits of invocation i has succeeded
FetchedHabits(i) ==
  \/ sync[i].pc \in TryPcs \ {"fetchHabits"}
  \/ sync[i].pc \in FallbackPcs /\ sync[i].at # "fetchHabits"

\* C14: when a sync that read metadata of an earlier sync and fetched zero
\* habits returns, the Local Store holds no habit and no completion (the
\* account has none, so whatever is stored was written by an earlier sync)
C14_NoStaleDataAfterEmptyFetch ==
  [][\A i \in Syncs :
       (/\ FetchedHabits(i)
        /\ sync[i].freshHabits = {}
        /\ sync[i].metadata.lastHabitsSync # 0
        /\ Returns(i))
       => /\ store'.habits = {}
          /\ store'.completions = {}]_vars

\* the positions of the Local Store writes (lines 210-217)
WritePcs == {"setHabits", "addCompletions", "setMetadata"}

\* the fetchHabits and the fetchCompletions of invocation i have succeeded
\* and the presenter has a cache
BothFetched(i) ==
  \/ sync[i].pc \in WritePcs
  \/ sync[i].pc \in FallbackPcs /\ sync[i].at \in WritePcs

\* C15: when a sync whose two fetches succeeded returns and the Local Store
\* has been opened, the Local Store holds the fetched habits and completions,
\* its metadata carries the time of the sync and the owner tag of the fetched
\* habits, and isOffline is off
C15_StoreHoldsFetchedData ==
  [][\A i \in Syncs :
       (listening /\ BothFetched(i) /\ Returns(i))
       => /\ store'.habits = sync[i].freshHabits
          /\ fetchCompletions(user, FetchFrom(i)) \subseteq store'.completions
          /\ store'.metadata.lastHabitsSync = now
          /\ store'.metadata.lastCompletionsSync = now
          /\ store'.metadata.userId = CurrentUserId(sync[i].freshHabits)
          /\ ~state'.isOffline]_vars

\* C16: a sync computes its statistics from the completions of the Local
\* Store only when its fetchHabits has failed
C16_CachedCompletionsOnlyAfterHabitsFailure ==
  [][\A i \in Syncs :
       (/\ sync[i].pc = "getCompletions"
        /\ Returns(i)
        /\ returned'.path = "fallback")
       => sync[i].at = "fetchHabits"]_vars

\* C17: a step that changes the scope or the selected date starts no
\* invocation, leaves the in-memory data, the Local Store and the sync fields
\* of the state as they are, and publishes isLoading off with the statistics
\* of the new scope and date
C17_RecomputeIsLocal ==
  [][(state'.scope # state.scope \/ state'.selectedDate # state.selectedDate)
       => /\ sync' = sync
          /\ returned' = returned
          /\ store' = store
          /\ habits' = habits
          /\ completions' = completions
          /\ state'.isOffline = state.isOffline
          /\ state'.isSyncing = state.isSyncing
          /\ state'.lastSync = state.lastSync
          /\ state'.error = state.error
          /\ ~state'.isLoading
          /\ StatsOf(state') =
               ComputedStatistics(habits, completions,
                                  state'.scope, state'.selectedDate)]_vars

\* C17 witness: the scope was changed after the data was loaded, and the
\* statistics of the new scope are published
C17_Witness ==
  /\ state.scope = "monthly"
  /\ habits # {}
  /\ state.periodStats # NullRecord
  /\ state.periodStats.rangeLabel = formatRangeLabel("monthly", Today)

\* C18: the presenter starts with the six aggregates empty, and every step
\* that changes one of them publishes all six as one computeStatistics pass
\* over the in-memory habits and completions yields them for one scope and
\* date
C18_AggregatesFromOnePass ==
  /\ StatsOf(state) = EmptyStatistics
  /\ [][StatsOf(state') # StatsOf(state)
          => \E scope \in Scopes, date \in SelectableDates :
               StatsOf(state') =
                 ComputedStatistics(habits', completions', scope, date)]_vars

\* C18 witness: computed aggregates were replaced by those of another pass
C18_Witness ==
  /\ state.scope = "weekly"
  /\ state.heatmap # {}
  /\ state.trends # {}
  /\ state.periodStats # NullRecord
  /\ StatsOf(state) =
       ComputedStatistics(habits, completions, "weekly", Today)

C20_StorageFailureIsNoCache ==
  [][\A i \in Syncs :
       sync[i].pc \in {"getMetadata", "clearAll"} \cup WritePcs
       => /\ sync'[i].pc \notin FallbackPcs
          /\ Returns(i) => /\ returned'.path = "fresh"
                           /\ ~state'.isOffline
                           /\ state'.error = state.error]_vars

\* invocation i (initialize, clearCache or sync) ends in this step
Ends(i) == InFlight(i) /\ sync'[i].pc = "idle"

\* C21: an invocation in which a Local Store or gateway call failed does not
\* reject: it resolves, and the state it ends in has isLoading and isSyncing
\* off and an error or the offline flag (also when cache.open() of
\* initialize() or cache.clearAll() of clearCache() fails)
C21_FailuresAreTranslated ==
  [][\A i \in Syncs :
       (Ends(i) /\ (returned'.thrown # Null \/ sync[i].caught # Null))
       => /\ returned'.outcome = "resolved"
          /\ ~state'.isLoading
          /\ ~state'.isSyncing
          /\ (state'.error # Null \/ state'.isOffline)]_vars

\* C22: clearCache() has wiped the Local Store and emptied the in-memory
\* habits and completions when it calls sync(), and the sync it calls reads
\* the metadata of an empty Local Store and does not turn to stored data
C22_ClearCacheThenSync ==
  [][\A i \in Syncs :
       /\ (sync[i].pc = "clearCache" /\ sync'[i].pc \in SyncPcs)
          => /\ store' = EmptyStore
             /\ habits' = {}
             /\ completions' = {}
       /\ (/\ sync[i].caller = "clearCache"
           /\ sync[i].pc = "getMetadata"
           /\ sync'[i].pc = "fetchHabits")
          => sync'[i].metadata = NoMetadata
       /\ sync[i].caller = "clearCache" => sync'[i].pc \notin FallbackPcs]_vars

PublishedPass ==
  /\ ~state.isLoading
  /\ StatsOf(state) =
       ComputedStatistics(habits, completions, state.scope, state.selectedDate)

InUnit(f) == f[2] > 0 /\ 0 <= f[1] /\ f[1] <= f[2]
InSignedUnit(f) == f[2] > 0 /\ 0 - f[2] <= f[1] /\ f[1] <= f[2]

\* the date ranges the model's calendar holds, those reaching before its
\* first day included
Ranges ==
  {[from |-> a, to |-> b] : a \in (0 - MaxDay - 1)..MaxDay, b \in Days}

ReadRanges(scope, date) ==
  {getPeriodRanges(scope, date).current,
   getPeriodRanges(scope, date).previous,
   getHeatmapRange(scope, date)}

\* C27: the completions fetched by the last sync cover what a later
\* recomputation reads: when setScope or setSelectedDate recomputes after a
\* sync that fetched the user's data, no range it reads starts before the
\* date the completions were fetched from, so every completion the server
\* holds in those ranges is in memory
C27_FetchCoversRecompute ==
  [][(/\ now' # now
      /\ sync' = sync
      /\ NoneInFlight
      /\ returned.path = "fresh"
      /\ habits = fetchHabits(user))
     => \A r \in ReadRanges(state'.scope, state'.selectedDate) :
          \A c \in ServerCompletions(user) :
            InRange(c.date, r) => c \in completions]_vars

\* C28: isSyncing is on exactly while some invocation of sync() has started
\* and not yet returned
C28_SyncingFlagIsAccurate ==
  state.isSyncing <=> \E i \in Syncs : InSync(i)

\* C29: a sync that fails without falling back returns with the in-memory
\* habits and completions it started with: the pair is replaced as a unit or
\* not at all
C29_FailedSyncLeavesPair ==
  [][\A i \in Syncs :
       (Returns(i) /\ returned'.path = "failed")
       => <<habits', completions'>> = sync[i].before]_vars

\* C30: a sync that read the metadata written by a completed sync of the
\* signed-in account (with habits or without) trusts the cache: when its
\* fetchHabits fails it turns to the cached data, and when its fetchHabits
\* succeeds it goes on to fetchCompletions without a clearAll
C30_CompletedSyncIsTrusted ==
  [][\A i \in Syncs :
       (/\ cache
        /\ sync[i].pc = "fetchHabits"
        /\ sync[i].metadata.lastHabitsSync # 0
        /\ sync[i].metadata.userId = CurrentUserId(fetchHabits(user))
        /\ sync'[i] # sync[i])
       => sync'[i].pc \in {"getHabits", "fetchCompletions"}]_vars

\* lines 426-427: the derived stores changedFields and hasUnsavedChanges
changedFields == {f \in SettingsFields : changes[f] # NoChange}
hasUnsavedChanges == changedFields # {}

\* C31: with the settings calls made one after the other, a field is in
\* changedFields exactly when its value differs from the one it had after the
\* last successful load, save or discard (that value is the tracked original),
\* hasUnsavedChanges is on exactly when some field differs, and discardAll
\* puts every field back to that value and empties the change set
C31_ChangesTrackDifference ==
  /\ [](/\ \A f \in SettingsFields :
             /\ f \in changedFields <=> settings[f] # saved[f]
             /\ f \in changedFields =>
                  /\ changes[f].original = saved[f]
                  /\ changes[f].current = settings[f]
        /\ hasUnsavedChanges <=> \E f \in SettingsFields :
                                    settings[f] # saved[f])
  /\ [][(Quiet /\ calls' = calls /\ changedFields # {} /\ changedFields' = {})
          => /\ \A f \in SettingsFields : settings'[f] = saved[f]
             /\ saved' = saved]_vars

\* C31 witness: after a successful load the name was edited twice and the
\* second edit set it back: nothing is tracked, while reduceMotion, edited
\* once, is
C31_Witness ==
  /\ settled.op = "loadSettings"
  /\ settled.success
  /\ issued = 4
  /\ settings.name = saved["name"]
  /\ "name" \notin changedFields
  /\ changedFields = {"reduceMotion"}
  /\ settings.reduceMotion # saved["reduceMotion"]

\* C32: an edit made with setField while loadSettings or saveAll is in flight
\* is not lost. When the call completes, every field edited meanwhile still
\* holds the edited value and, if it was tracked and differs from the value
\* the call received for it, is still tracked, unless the call is a saveAll
\* whose request carried that value
C32_EditsSurviveCalls ==
  [][\A c \in Calls :
       (calls[c].op \in {"loadSettings", "saveAll"} /\ ~CallInFlight(c)')
         => \A f \in calls[c].edited :
              \/ /\ calls[c].op = "saveAll"
                 /\ f \in DOMAIN calls[c].body
                 /\ calls[c].body[f] = settings[f]
              \/ /\ settings'[f] = settings[f]
                 /\ (/\ f \in changedFields
                     /\ f \in DOMAIN calls[c].response
                          => calls[c].response[f] # settings[f])
                      => f \in changedFields']_vars

\* C33: when updatePreferences fails, saveAll resolves (it does not reject)
\* with success = false, publishes the error and leaves every field value,
\* the change set and the settings cache as they were; whatever the outcome,
\* a saveAll that returns publishes isSaving = false
C33_FailedSaveKeepsEdits ==
  [][\A c \in Calls :
       (calls[c].op = "saveAll" /\ ~CallInFlight(c)')
         => /\ settings'.isSaving = FALSE
            /\ settled'.op = "saveAll"
            /\ ~settled'.rejected
            /\ ~settled'.success
                 => /\ settings'.error = SaveFailure
                    /\ settings' = [settings EXCEPT !.error = SaveFailure,
                                                    !.isSaving = FALSE]
                    /\ changes' = changes
                    /\ storage' = storage]_vars

\* a saveAll has failed with an unsaved edit and a cache entry in place
C33_Witness ==
  /\ settled.op = "saveAll" /\ ~settled.success /\ ~settled.rejected
  /\ settings.error = SaveFailure
  /\ ~settings.isSaving
  /\ changedFields = {"name"} /\ settings.name = "b"
  /\ storage # NullRecord

\* C34: the settings cache never serves a stale avatar. Once an uploadAvatar
\* has succeeded, neither the state nor a cache entry (which a later
\* initFromCache would apply) holds an avatar URL from before that upload,
\* whatever the interleaving of uploadAvatar, saveAll and loadSettings
C34_NoStaleAvatar ==
  uploaded # 0
    => /\ settings.avatarUrl >= uploaded
       /\ storage # NullRecord => storage.imageUrl >= uploaded

\* C35: paging loses no page on failure. When the fetch started by loadMore
\* fails, the page counter is not left at the page that was never loaded (so
\* the next loadMore asks for that page again), and a page that loadMore
\* appends is the one that follows the page appended last
C35_PagingLosesNoPage ==
  [][\A r \in Requests :
       (requests[r].caller = "loadMore" /\ ~RequestInFlight(r)')
         => /\ answered'.failed => notifs'.page < requests[r].page
            /\ (~answered'.failed /\ loaded # <<>>)
                 => requests[r].page = loaded[Len(loaded)] + 1]_vars

\* C36: at most one notification page fetch is in flight at any time, because
\* fetchNotifications and loadMore do nothing while loading is set
C36_OneFetchInFlight ==
  Cardinality({r \in Requests : requests[r].op = "fetchNotifications"}) <= 1

\* C37: unreadCount is never negative; a markAsRead or dismiss that succeeds
\* lowers it by one or leaves it, lowers it only when the notification is in
\* the list and unread as the response is applied, lowers it at most once for
\* one notification, and leaves it when the notification is already read
C37_UnreadCountDecrements ==
  /\ [](notifs.unreadCount >= 0)
  /\ [][\A r \in Requests :
          (/\ requests[r].op \in {"markAsRead", "dismiss"}
           /\ ~RequestInFlight(r)'
           /\ ~answered'.failed)
            => LET n == requests[r].id
                   list == notifs.notifications
                   entries == {i \in 1..Len(list) : list[i].id = n}
               IN /\ notifs'.unreadCount \in
                       {notifs.unreadCount, notifs.unreadCount - 1}
                  /\ notifs'.unreadCount < notifs.unreadCount
                       => /\ \E i \in entries : ~list[i].read
                          /\ n \notin decremented
                  /\ (\A i \in entries : list[i].read)
                       => notifs'.unreadCount = notifs.unreadCount]_vars

\* C38: when the API call of markAsRead, markAllAsRead or dismiss fails, the
\* list, unreadCount, page and hasMore (and every other field but error) are
\* left as they were, error is set, and the promise resolves
C38_FailedMarkChangesOnlyError ==
  [][\A r \in Requests :
       (/\ requests[r].op \in {"markAsRead", "markAllAsRead", "dismiss"}
        /\ ~RequestInFlight(r)'
        /\ answered'.failed)
         => /\ notifs'.notifications = notifs.notifications
            /\ notifs'.unreadCount = notifs.unreadCount
            /\ notifs'.page = notifs.page
            /\ notifs'.hasMore = notifs.hasMore
            /\ notifs' = [notifs EXCEPT !.error = notifs'.error]
            /\ notifs'.error # Null
            /\ ~answered'.rejected]_vars

\* a dismiss has failed while the list holds the unread notification and
\* unreadCount is positive
C38_Witness ==
  /\ answered.op = "dismiss" /\ answered.failed /\ ~answered.rejected
  /\ notifs.error = "Failed to dismiss notification"
  /\ notifs.notifications = <<[id |-> 1, read |-> FALSE]>>
  /\ notifs.unreadCount = 3
  /\ \A r \in Requests : ~RequestInFlight(r)

TypeOK ==
  /\ user \in Users
  /\ now \in 0..MaxNow
  /\ \A i \in Syncs : sync[i].pc \in
       {"idle", "open", "clearCache", "getMetadata", "fetchHabits",
        "clearAll", "fetchCompletions", "setHabits", "addCompletions",
        "setMetadata", "getHabits", "getCompletions"}

====
